---------------------------- MODULE Spec2Model ----------------------------
(***************************************************************************)
(* A model of r2ks.cpp: the R2KS pairwise scorer (calculateWeight,         *)
(* scoreLists), the list reader (readLineIndex), the MPI work distribution *)
(* (masterProcess, clientProcess) and the OpenMP loop of main.             *)
(*                                                                         *)
(* Numbers.  Every weight h*(h+1)/2 is an integer, so every History value  *)
(* and total_weight are integers.  A candidate                             *)
(*     value/total_weight - (pos_y+1)*(i+1)/(num_genes*num_genes)          *)
(* is kept as its numerator over the common denominator                    *)
(*     total_weight * num_genes * num_genes  (> 0),                        *)
(* that is value*num_genes^2 - (pos_y+1)*(i+1)*total_weight.  rvalue and   *)
(* the scores are numerators over that same denominator; the final factor  *)
(* sqrt(num_genes) and the narrowing to float are monotone and common to   *)
(* all the scores of one run, so comparisons of scores are comparisons of  *)
(* numerators.                                                             *)
(***************************************************************************)
EXTENDS Integers, Sequences, FiniteSets, TLC

\* ------------------------------------------------------------------ bounds
MaxGenes == 4       \* num_genes of the scorer's specifications
MaxPivot == 2       \* options.pivot (-w)
MaxIdx == 9         \* rank positions given to calculateWeight on its own
MaxWPivot == 9      \* pivots given to calculateWeight on its own
MaxLists == 3       \* num_lists of the header
MaxProcs == 3       \* num_procs: rank 0 and up to MaxProcs - 1 workers
FileGenes == 2      \* num_genes of the files the two modes are run on
MaxThreads == 2     \* threads of the OpenMP team
MaxPairGenes == 3   \* num_genes of the pairs given to the two loop bodies
MaxReadGenes == 2   \* num_genes of the files whose list lines may be short or out of range

\* ------------------------------------------------------------------- state
VARIABLES
  options,      \* struct Options: num_genes, num_lists, pivot, two_tailed, num_procs
  idx,          \* calculateWeight: argument idx
  weight,       \* calculateWeight: returned value (-1 before the call)
  gene_list0,   \* scoreLists: first list, a function on 0..num_genes-1
  gene_list1,   \* scoreLists: second list
  total_weight, \* scoreLists: total_weight
  buff,         \* scoreLists: buff, gene -> position in gene_list1
  history,      \* scoreLists: std::vector<History>, entries [pos_y, value]
  rvalue,       \* scoreLists: rvalue (numerator, see above)
  si,           \* scoreLists: the loop variable i of the main loop
  spc,          \* scoreLists: "idle", "start", "loop", "done"
  file,         \* the list lines of the input file: file[k] is line k, its tokens indexed from 0
  mpc,          \* masterProcess: position of rank 0
  total_tests,  \* masterProcess: total_tests
  processes_per_node, \* masterProcess: processes_per_node
  extra_processes,    \* masterProcess: extra_processes
  test_numbers, \* masterProcess: test_numbers (test_numbers[o] of the code is test_numbers[o + 1])
  mi,           \* masterProcess: the loop variable i of the distribution loop
  results,      \* masterProcess: results
  mcout,        \* std::cout of rank 0: the lines [i, j, result] written so far
  mchan,        \* mchan[k]: the messages sent by rank 0 to rank k and not yet received
  rchan,        \* rchan[k]: the messages sent by rank k to rank 0 and not yet received
  wpc,          \* clientProcess of rank k: position
  bsize,        \* clientProcess of rank k: bsize
  buffer,       \* clientProcess of rank k: buffer
  wi,           \* clientProcess of rank k: the loop variable i
  cout,         \* std::cout of the OpenMP build: the tokens written so far, in order
  claimed,      \* OpenMP loop: the iterations i already given to a thread
  tpc,          \* OpenMP thread t: position
  ti,           \* OpenMP thread t: the loop variable i
  tj,           \* OpenMP thread t: the loop variable j
  trvalue,      \* OpenMP thread t: rvalue
  tpart,        \* OpenMP thread t: the next token of its cout statement, 1 .. 6
  body,         \* a loop body on its own: "client" or "loop"
  reported,     \* a loop body on its own: the rvalue it reports (-1 before)
  ppc,          \* one pass of a loop body on any file: position
  pair,         \* one pass of a loop body on any file: <<l0, l1>>
  oob           \* the accesses made outside the bounds of a vector, [vec, index, kind]

weightVars == <<idx, weight>>
scoreVars == <<gene_list0, gene_list1, total_weight, buff, history, rvalue, si, spc>>
masterVars == <<mpc, total_tests, processes_per_node, extra_processes, test_numbers,
                mi, results, mcout>>
clientVars == <<wpc, bsize, buffer, wi>>
ompVars == <<cout, claimed, tpc, ti, tj, trvalue, tpart>>
bodyVars == <<body, reported>>
pairVars == <<ppc, pair, oob>>
mpiVars == <<mpc, total_tests, processes_per_node, extra_processes, test_numbers,
             mi, results, mcout, mchan, rchan, wpc, bsize, buffer, wi>>
exceptWeight == <<options, file, scoreVars, mpiVars, ompVars, bodyVars, pairVars>>
exceptScore == <<options, file, weightVars, mpiVars, ompVars, bodyVars, pairVars>>
exceptMPI == <<options, file, weightVars, scoreVars, ompVars, bodyVars, pairVars>>
exceptOMP == <<options, file, weightVars, scoreVars, mpiVars, bodyVars, pairVars>>
exceptBody == <<options, file, weightVars, scoreVars, mpiVars, ompVars, pairVars>>
vars == <<options, idx, weight, gene_list0, gene_list1, total_weight, buff,
          history, rvalue, si, spc, file, mpc, total_tests, processes_per_node,
          extra_processes, test_numbers, mi, results, mcout, mchan, rchan, wpc,
          bsize, buffer, wi, cout, claimed, tpc, ti, tj, trvalue, tpart, body,
          reported, ppc, pair, oob>>

\* ----------------------------------------------------------------- helpers
Max(a, b) == IF a > b THEN a ELSE b

SetMax(S) == CHOOSE x \in S : \A y \in S : y <= x

\* F(v), with v evaluated once (a local variable of the code)
Let(v, F(_)) == CHOOSE r \in {F(x) : x \in {v}} : TRUE

\* the vectors of n distinct gene identifiers 0..n-1, indexed from 0
Perms(n) == {f \in [0 .. n - 1 -> 0 .. n - 1] : \A x, y \in 0 .. n - 1 : f[x] = f[y] => x = y}

\* an input file of l lists: list k is 0 .. n-1 rotated by k places
RotatedLists(l, n) == [k \in 1 .. l |-> [i \in 0 .. n - 1 |-> (i + k) % n]]

Options(n, l, p, t, np) ==
  [num_genes |-> n, num_lists |-> l, pivot |-> p, two_tailed |-> t, num_procs |-> np]

\* --------------------------------------------------------- calculateWeight
calculateWeight(i, pivot) ==
  IF pivot = 0 THEN 1
  ELSE LET h == pivot - i IN IF h < 0 THEN 1 ELSE (h * (h + 1)) \div 2

\* -------------------------------------------------------------- scoreLists
RECURSIVE SumWeights(_, _)
SumWeights(n, pivot) ==
  IF n = 0 THEN 0 ELSE SumWeights(n - 1, pivot) + calculateWeight(n - 1, pivot)

TotalWeightSkipFirst(l0, pivot) ==
  SumWeights(Cardinality(DOMAIN l0), pivot) - calculateWeight(0, pivot)

\* total_weight: the sum of calculateWeight(i, pivot) over the positions of gene_list0
TotalWeight(l0, pivot) == SumWeights(Cardinality(DOMAIN l0), pivot)

\* buff(gene_list0.size()) is zero-filled, then buff[gene_list1[i]] = i for i ascending
Buff(l0, l1) ==
  [g \in DOMAIN l0 |->
     LET at == {i \in DOMAIN l0 : l1[i] = g}
     IN IF at = {} THEN 0 ELSE SetMax(at)]

\* numerator of (e.value / total_weight) - (e.pos_y+1)*(i+1) * one_over
Candidate(e, i, n, tw) == e.value * n * n - (e.pos_y + 1) * (i + 1) * tw

\* the first line: one entry pushed, rvalue left at 0.0
FirstHistory(l0, bf, pivot) ==
  <<[pos_y |-> bf[l0[0]], value |-> calculateWeight(0, pivot)]>>

\* w of step i >= 1: the smaller of the two position weights
StepWeight(i, pos, pivot) ==
  LET iw == calculateWeight(i, pivot)
      jw == calculateWeight(pos, pivot)
  IN IF iw < jw THEN iw ELSE jw

\* the entry at which the backward walk stops: the walk starts at the last
\* entry and goes on while it is not at begin() and its pos_y > pivot
StopIndex(h, pos) ==
  SetMax({k \in 1 .. Len(h) : k = 1 \/ h[k].pos_y <= pos})

\* one iteration of the main loop on (history, rvalue); st = [history, rvalue]
ScoreStep(st, i, l0, bf, n, pivot, tw) ==
  LET h == st.history
      pos == bf[l0[i]]
      w == StepWeight(i, pos, pivot)
      lh == h[Len(h)]
  IN IF pos > lh.pos_y
     THEN LET nh == [pos_y |-> pos, value |-> lh.value + w]
          IN [history |-> Append(h, nh),
              rvalue |-> Max(Candidate(nh, i, n, tw), st.rvalue)]
     ELSE LET s == StopIndex(h, pos)
              upd == [k \in 1 .. Len(h) |->
                        IF k > s THEN [h[k] EXCEPT !.value = @ + w] ELSE h[k]]
              nh == [pos_y |-> pos, value |-> h[s].value + w]
              cands == {Candidate(upd[k], i, n, tw) : k \in s + 1 .. Len(h)}
                         \cup {Candidate(nh, i, n, tw)}
          IN [history |-> SubSeq(upd, 1, s) \o <<nh>> \o SubSeq(upd, s + 1, Len(h)),
              rvalue |-> Max(SetMax(cands), st.rvalue)]

RECURSIVE ScoreLoop(_, _, _, _, _, _, _)
ScoreLoop(st, i, l0, bf, n, pivot, tw) ==
  IF i >= n THEN st
  ELSE Let(ScoreStep(st, i, l0, bf, n, pivot, tw),
           LAMBDA nx : ScoreLoop(nx, i + 1, l0, bf, n, pivot, tw))

\* scoreLists(options, gene_list0, gene_list1): the numerator of rvalue
scoreLists(opts, l0, l1) ==
  Let(<<Buff(l0, l1), TotalWeight(l0, opts.pivot)>>,
      LAMBDA loc :
        LET bf == loc[1]
            tw == loc[2]
        IN Let([history |-> FirstHistory(l0, bf, opts.pivot), rvalue |-> 0],
               LAMBDA st0 : ScoreLoop(st0, 1, l0, bf, opts.num_genes, opts.pivot,
                                      tw).rvalue))

\* ------------------------------------------- readLineIndex, the loop bodies
\* the tokens of a line, in order
LineTokens(l) == [t \in 1 .. Cardinality(DOMAIN l) |-> l[t - 1]]

\* the tokens operator >> meets from the start of list line number line to
\* the end of the file: it skips newlines as it skips blanks.  Past the last
\* line there is none
RECURSIVE TokensFrom(_, _)
TokensFrom(f, line) ==
  IF line > Len(f) THEN <<>> ELSE LineTokens(f[line]) \o TokensFrom(f, line + 1)

\* the tokens the loop of readLineIndex stores: one per gidx < num_genes, while
\* a token can be read
StoredTokens(f, line, n) ==
  Let(TokensFrom(f, line),
      LAMBDA toks : SubSeq(toks, 1, IF Len(toks) < n THEN Len(toks) ELSE n))

\* the writes gene_list[gene_expression] = gidx outside gene_list
OutOfBounds(f, line, n) ==
  Let(StoredTokens(f, line, n),
      LAMBDA toks : {toks[t] : t \in {u \in 1 .. Len(toks) : toks[u] >= n}})

\* gene_list is zero-filled; token number gidx of the stream, gene_expression,
\* gives gene_list[gene_expression] = gidx (here for the writes inside gene_list)
readLineIndex(f, line, n) ==
  Let(StoredTokens(f, line, n),
      LAMBDA toks :
        [g \in 0 .. n - 1 |->
           LET at == {gidx \in 0 .. Len(toks) - 1 : toks[gidx + 1] = g}
           IN IF at = {} THEN 0 ELSE SetMax(at)])

\* std::reverse(gene_list1.begin(), gene_list1.end())
Reverse(l) == [i \in DOMAIN l |-> l[Cardinality(DOMAIN l) - 1 - i]]

\* clientProcess, lines 373-380: rvalue as put in mp.result
ClientScoreSmaller(opts, l0, l1) ==
  LET r == scoreLists(opts, l0, l1)
  IN IF opts.two_tailed
     THEN LET t == scoreLists(opts, l0, Reverse(l1)) IN IF t < r THEN t ELSE r
     ELSE r

ClientScore(opts, l0, l1) ==
  LET r == scoreLists(opts, l0, l1)
  IN IF opts.two_tailed
     THEN LET t == scoreLists(opts, l0, Reverse(l1)) IN IF t > r THEN t ELSE r
     ELSE r

\* main, lines 495-501: rvalue as written to std::cout
LoopScore(opts, l0, l1) ==
  LET r == scoreLists(opts, l0, l1)
  IN IF opts.two_tailed
     THEN LET t == scoreLists(opts, l0, Reverse(l1)) IN IF t > r THEN t ELSE r
     ELSE r

\* ----------------------------------------------------------- masterProcess
\* total_tests = options.num_lists * (options.num_lists - 1) / 2, in unsigned int
\* arithmetic: with 1 <= num_lists <= MaxLists nothing wraps
TotalTests(L) == (L * (L - 1)) \div 2

\* the list of pairs: i from 1 to num_lists, j from i to num_lists
RECURSIVE PairsFrom(_, _, _)
PairsFrom(i, j, L) ==
  IF i >= L + 1 THEN <<>>
  ELSE IF j >= L + 1 THEN PairsFrom(i + 1, i + 1, L)
  ELSE <<i, j>> \o PairsFrom(i, j + 1, L)

TestNumbers(L) == PairsFrom(1, 1, L)

SendCountNoExtra(i, ppn, extra, np) == ppn * 2

SendCountExtraFirst(i, ppn, extra, np) == (IF i = 1 THEN ppn + extra ELSE ppn) * 2

\* send_count of worker i, doubled: the number of ints sent
SendCount(i, ppn, extra, np) == (IF i = np - 1 THEN ppn + extra ELSE ppn) * 2

OffsetNotDoubled(i, ppn) == ppn * (i - 1)

\* offset of worker i into test_numbers
Offset(i, ppn) == ppn * 2 * (i - 1)

Workers == 1 .. options.num_procs - 1

\* ------------------------------------------------- idle values of the parts
WeightIdle == idx = 0 /\ weight = -1

ScoreIdle ==
  /\ gene_list0 = <<>> /\ gene_list1 = <<>> /\ total_weight = 0 /\ buff = <<>>
  /\ history = <<>> /\ rvalue = 0 /\ si = 0 /\ spc = "idle"

MPIIdle ==
  /\ mpc = "idle" /\ total_tests = 0 /\ processes_per_node = 0
  /\ extra_processes = 0 /\ test_numbers = <<>> /\ mi = 0 /\ results = 0
  /\ mcout = <<>> /\ mchan = <<>> /\ rchan = <<>> /\ wpc = <<>> /\ bsize = <<>>
  /\ buffer = <<>> /\ wi = <<>>

OMPIdle ==
  /\ cout = <<>> /\ claimed = {} /\ tpc = <<>> /\ ti = <<>> /\ tj = <<>>
  /\ trvalue = <<>> /\ tpart = <<>>

BodyIdle == body = "none" /\ reported = -1

PairIdle == ppc = "idle" /\ pair = <<>> /\ oob = {}

\* ------------------------------------------- calculateWeight on its own
InitWeight ==
  /\ \E p \in 0 .. MaxWPivot : options = Options(1, 0, p, FALSE, 1)
  /\ idx \in 0 .. MaxIdx
  /\ weight = -1
  /\ file = <<>>
  /\ ScoreIdle /\ MPIIdle /\ OMPIdle /\ BodyIdle /\ PairIdle

CallCalculateWeight ==
  /\ weight = -1
  /\ weight' = calculateWeight(idx, options.pivot)
  /\ UNCHANGED <<idx, exceptWeight>>

NextWeight == CallCalculateWeight

SpecWeight == InitWeight /\ [][NextWeight]_vars

\* ------------------------------------------------- scoreLists step by step
InitScore ==
  /\ \E n \in 1 .. MaxGenes, p \in 0 .. MaxPivot :
       /\ options = Options(n, 2, p, FALSE, 1)
       /\ gene_list0 \in Perms(n)
       /\ gene_list1 \in Perms(n)
  /\ total_weight = 0 /\ buff = <<>> /\ history = <<>> /\ rvalue = 0 /\ si = 0
  /\ spc = "start"
  /\ file = <<>>
  /\ WeightIdle /\ MPIIdle /\ OMPIdle /\ BodyIdle /\ PairIdle

\* lines 82-132: total_weight, buff, and the first line of the History
ScoreFirst ==
  /\ spc = "start"
  /\ total_weight' = TotalWeight(gene_list0, options.pivot)
  /\ buff' = Buff(gene_list0, gene_list1)
  /\ history' = FirstHistory(gene_list0, buff', options.pivot)
  /\ rvalue' = 0
  /\ si' = 1
  /\ spc' = "loop"
  /\ UNCHANGED <<exceptScore, gene_list0, gene_list1>>

\* lines 139-162: the pivot is beyond the last entry, a new entry is pushed
ScoreCaseA ==
  /\ spc = "loop"
  /\ si < options.num_genes
  /\ buff[gene_list0[si]] > history[Len(history)].pos_y
  /\ LET st == ScoreStep([history |-> history, rvalue |-> rvalue], si, gene_list0,
                         buff, options.num_genes, options.pivot, total_weight)
     IN /\ history' = st.history
        /\ rvalue' = st.rvalue
  /\ si' = si + 1
  /\ UNCHANGED <<exceptScore, gene_list0, gene_list1, total_weight,
                 buff, spc>>

\* lines 139-148, 163-190: walk back through the histories, update, insert
ScoreCaseB ==
  /\ spc = "loop"
  /\ si < options.num_genes
  /\ ~(buff[gene_list0[si]] > history[Len(history)].pos_y)
  /\ LET st == ScoreStep([history |-> history, rvalue |-> rvalue], si, gene_list0,
                         buff, options.num_genes, options.pivot, total_weight)
     IN /\ history' = st.history
        /\ rvalue' = st.rvalue
  /\ si' = si + 1
  /\ UNCHANGED <<exceptScore, gene_list0, gene_list1, total_weight,
                 buff, spc>>

\* line 194
ScoreReturn ==
  /\ spc = "loop"
  /\ si >= options.num_genes
  /\ spc' = "done"
  /\ UNCHANGED <<exceptScore, gene_list0, gene_list1, total_weight,
                 buff, history, rvalue, si>>

NextScore == ScoreFirst \/ ScoreCaseA \/ ScoreCaseB \/ ScoreReturn

SpecScore == InitScore /\ [][NextScore]_vars

\* ------------------------------------------------------ distributed mode
\* main under USE_MPI with num_procs > 1: rank 0 runs masterProcess, every
\* other rank clientProcess.  An MPI_Send either returns at once (the message
\* is buffered) or blocks until the matching receive has taken it.

\* readHeaderBlock and the defaults of main: the run is without -w and -t
InitInput(procs) ==
  \E L \in 1 .. MaxLists, np \in procs :
    /\ options = Options(FileGenes, L, 0, FALSE, np)
    /\ file = RotatedLists(L, FileGenes)

\* the ranks before masterProcess and clientProcess are entered
InitMaster ==
  /\ LET np == options.num_procs
     IN
       /\ mchan = [k \in 1 .. np - 1 |-> <<>>]
       /\ rchan = [k \in 1 .. np - 1 |-> <<>>]
       /\ wpc = [k \in 1 .. np - 1 |-> "recv_count"]
       /\ bsize = [k \in 1 .. np - 1 |-> 0]
       /\ buffer = [k \in 1 .. np - 1 |-> <<>>]
       /\ wi = [k \in 1 .. np - 1 |-> 0]
  /\ mpc = "start"
  /\ total_tests = 0 /\ processes_per_node = 0 /\ extra_processes = 0
  /\ test_numbers = <<>> /\ mi = 0 /\ results = 0 /\ mcout = <<>>

InitMPI ==
  /\ InitInput(2 .. MaxProcs) /\ InitMaster
  /\ WeightIdle /\ ScoreIdle /\ OMPIdle /\ BodyIdle /\ PairIdle

\* lines 299-311
MasterStart ==
  /\ mpc = "start"
  /\ total_tests' = TotalTests(options.num_lists)
  /\ processes_per_node' = total_tests' \div (options.num_procs - 1)
  /\ extra_processes' = total_tests' % (options.num_procs - 1)
  /\ test_numbers' = TestNumbers(options.num_lists)
  /\ mi' = 1
  /\ mpc' = "send_count"
  /\ UNCHANGED <<exceptMPI, results, mcout, mchan, rchan,
                 clientVars>>

\* lines 317-326: MPI_Send(&send_count, ...)
MasterSendCount ==
  /\ mpc = "send_count"
  /\ mi < options.num_procs
  /\ mchan' = [mchan EXCEPT ![mi] = Append(@,
         <<SendCount(mi, processes_per_node, extra_processes, options.num_procs)>>)]
  /\ \E eager \in BOOLEAN : mpc' = IF eager THEN "send_pairs" ELSE "wait_count"
  /\ UNCHANGED <<exceptMPI, total_tests, processes_per_node,
                 extra_processes, test_numbers, mi, results, mcout, rchan, clientVars>>

\* line 327: MPI_Send(&test_numbers[offset], send_count, ...)
MasterSendPairs ==
  /\ mpc = "send_pairs"
  /\ LET cnt == SendCount(mi, processes_per_node, extra_processes, options.num_procs)
         off == Offset(mi, processes_per_node)
     IN mchan' = [mchan EXCEPT ![mi] = Append(@, SubSeq(test_numbers, off + 1, off + cnt))]
  /\ \E eager \in BOOLEAN :
       IF eager THEN mpc' = "send_count" /\ mi' = mi + 1
       ELSE mpc' = "wait_pairs" /\ mi' = mi
  /\ UNCHANGED <<exceptMPI, total_tests, processes_per_node,
                 extra_processes, test_numbers, results, mcout, rchan, clientVars>>

\* a blocked MPI_Send of rank 0 returns once worker mi has received the message
MasterSendReturn ==
  /\ mpc \in {"wait_count", "wait_pairs"}
  /\ mchan[mi] = <<>>
  /\ IF mpc = "wait_count" THEN mpc' = "send_pairs" /\ mi' = mi
     ELSE mpc' = "send_count" /\ mi' = mi + 1
  /\ UNCHANGED <<exceptMPI, total_tests, processes_per_node,
                 extra_processes, test_numbers, results, mcout, mchan, rchan, clientVars>>

MasterEndDistributionResend ==
  /\ mpc = "send_count"
  /\ mi >= options.num_procs
  /\ results' = 0
  /\ mi' = 1
  /\ UNCHANGED <<exceptMPI, mpc, total_tests, processes_per_node,
                 extra_processes, test_numbers, mcout, mchan, rchan, clientVars>>

\* line 317 false, line 332
MasterEndDistribution ==
  /\ mpc = "send_count"
  /\ mi >= options.num_procs
  /\ results' = 0
  /\ mpc' = "collect"
  /\ UNCHANGED <<exceptMPI, total_tests, processes_per_node,
                 extra_processes, test_numbers, mi, mcout, mchan, rchan, clientVars>>

MasterCollectNoDequeue ==
  /\ mpc = "collect"
  /\ results < total_tests
  /\ \E k \in Workers :
       /\ rchan[k] # <<>>
       /\ mcout' = Append(mcout, Head(rchan[k]))
  /\ results' = results + 1
  /\ UNCHANGED <<exceptMPI, mpc, total_tests,
                 processes_per_node, extra_processes, test_numbers, mi, mchan, rchan,
                 clientVars>>

\* lines 334-340: one MPI_Recv from any source, results++, the line written
MasterCollect ==
  /\ mpc = "collect"
  /\ results < total_tests
  /\ \E k \in Workers :
       /\ rchan[k] # <<>>
       /\ mcout' = Append(mcout, Head(rchan[k]))
       /\ rchan' = [rchan EXCEPT ![k] = Tail(@)]
  /\ results' = results + 1
  /\ UNCHANGED <<exceptMPI, mpc, total_tests,
                 processes_per_node, extra_processes, test_numbers, mi, mchan,
                 clientVars>>

\* line 334 false: masterProcess returns
MasterReturn ==
  /\ mpc = "collect"
  /\ results >= total_tests
  /\ mpc' = "done"
  /\ UNCHANGED <<exceptMPI, total_tests, processes_per_node,
                 extra_processes, test_numbers, mi, results, mcout, mchan, rchan,
                 clientVars>>

Master ==
  \/ MasterStart
  \/ MasterSendCount
  \/ MasterSendPairs
  \/ MasterSendReturn
  \/ MasterEndDistribution
  \/ MasterCollect
  \/ MasterReturn

\* line 355: MPI_Recv(&bsize, 1, ...)
ClientRecvCount(k) ==
  /\ wpc[k] = "recv_count"
  /\ mchan[k] # <<>>
  /\ bsize' = [bsize EXCEPT ![k] = Head(mchan[k])[1]]
  /\ mchan' = [mchan EXCEPT ![k] = Tail(@)]
  /\ wpc' = [wpc EXCEPT ![k] = "recv_pairs"]
  /\ UNCHANGED <<exceptMPI, masterVars, rchan, buffer, wi>>

\* lines 357-358: MPI_Recv(&buffer, bsize, ...)
ClientRecvPairs(k) ==
  /\ wpc[k] = "recv_pairs"
  /\ mchan[k] # <<>>
  /\ buffer' = [buffer EXCEPT ![k] = Head(mchan[k])]
  /\ mchan' = [mchan EXCEPT ![k] = Tail(@)]
  /\ wi' = [wi EXCEPT ![k] = 0]
  /\ wpc' = [wpc EXCEPT ![k] = "loop"]
  /\ UNCHANGED <<exceptMPI, masterVars, rchan, bsize>>

\* lines 362-387: one pair read, scored and sent
ClientScorePair(k) ==
  /\ wpc[k] = "loop"
  /\ wi[k] < bsize[k]
  /\ LET l0 == buffer[k][wi[k] + 1]
         l1 == buffer[k][wi[k] + 2]
         g0 == readLineIndex(file, l0, options.num_genes)
         g1 == readLineIndex(file, l1, options.num_genes)
         mp == [i |-> l0, j |-> l1, result |-> ClientScore(options, g0, g1)]
     IN rchan' = [rchan EXCEPT ![k] = Append(@, mp)]
  /\ \E eager \in BOOLEAN :
       IF eager THEN wpc' = wpc /\ wi' = [wi EXCEPT ![k] = @ + 2]
       ELSE wpc' = [wpc EXCEPT ![k] = "wait_result"] /\ wi' = wi
  /\ UNCHANGED <<exceptMPI, masterVars, mchan, bsize, buffer>>

\* a blocked MPI_Send of rank k returns once rank 0 has received the result
ClientSendReturn(k) ==
  /\ wpc[k] = "wait_result"
  /\ rchan[k] = <<>>
  /\ wpc' = [wpc EXCEPT ![k] = "loop"]
  /\ wi' = [wi EXCEPT ![k] = @ + 2]
  /\ UNCHANGED <<exceptMPI, masterVars, mchan, rchan, bsize,
                 buffer>>

\* line 362 false: clientProcess returns
ClientReturn(k) ==
  /\ wpc[k] = "loop"
  /\ wi[k] >= bsize[k]
  /\ wpc' = [wpc EXCEPT ![k] = "done"]
  /\ UNCHANGED <<exceptMPI, masterVars, mchan, rchan, bsize,
                 buffer, wi>>

Client(k) ==
  \/ ClientRecvCount(k)
  \/ ClientRecvPairs(k)
  \/ ClientScorePair(k)
  \/ ClientSendReturn(k)
  \/ ClientReturn(k)

NextMPI ==
  \/ MasterStart
  \/ MasterSendCount
  \/ MasterSendPairs
  \/ MasterSendReturn
  \/ MasterEndDistribution
  \/ MasterCollect
  \/ MasterReturn
  \/ \E k \in Workers : ClientRecvCount(k)
  \/ \E k \in Workers : ClientRecvPairs(k)
  \/ \E k \in Workers : ClientScorePair(k)
  \/ \E k \in Workers : ClientSendReturn(k)
  \/ \E k \in Workers : ClientReturn(k)

SpecMPI == InitMPI /\ [][NextMPI]_vars

\* the ranks keep being scheduled: while some rank can take a step, a step is
\* eventually taken
SpecMPIFair == InitMPI /\ [][NextMPI]_vars /\ WF_vars(NextMPI)

\* ------------------------------------------ properties of the distribution
\* the pairs (i, j), 1 <= i <= j <= L
AllPairs(L) == {p \in (1 .. L) \X (1 .. L) : p[1] <= p[2]}

\* the pairs held by a flat list of pair indices
PairsOf(buf) == {<<buf[2 * m - 1], buf[2 * m]>> : m \in 1 .. Len(buf) \div 2}

\* the chunk sent to worker k so far: in its buffer, or still in flight
SentChunk(k) ==
  IF wpc[k] \in {"loop", "wait_result", "done"} THEN buffer[k]
  ELSE IF wpc[k] = "recv_pairs" /\ Len(mchan[k]) >= 1 THEN mchan[k][1]
  ELSE IF wpc[k] = "recv_count" /\ Len(mchan[k]) >= 2 THEN mchan[k][2]
  ELSE <<>>

RECURSIVE SentPairCount(_)
SentPairCount(k) == IF k = 0 THEN 0 ELSE SentPairCount(k - 1) + Len(SentChunk(k)) \div 2

\* the results produced so far: written by rank 0, or still in flight
RECURSIVE AllResults(_)
AllResults(k) == IF k = 0 THEN mcout ELSE AllResults(k - 1) \o rchan[k]

AllDone == mpc = "done" /\ \A k \in Workers : wpc[k] = "done"

\* ---------------------------------------------------- shared-memory mode
\* main without USE_MPI: the iterations of the outer loop are shared out among
\* the threads of the team by the OpenMP runtime, each iteration to one thread,
\* in an order and a split the runtime chooses.  Every operator << of the cout
\* statement is a write of its own.
Threads == DOMAIN tpc

InitTeam(maxThreads) ==
  /\ cout = <<>>
  /\ claimed = {}
  /\ \E nt \in 1 .. maxThreads :
       /\ tpc = [t \in 1 .. nt |-> "idle"]
       /\ ti = [t \in 1 .. nt |-> 0]
       /\ tj = [t \in 1 .. nt |-> 0]
       /\ trvalue = [t \in 1 .. nt |-> 0]
       /\ tpart = [t \in 1 .. nt |-> 1]

InitOMP ==
  /\ InitInput({1}) /\ InitTeam(MaxThreads)
  /\ WeightIdle /\ ScoreIdle /\ MPIIdle /\ BodyIdle /\ PairIdle

\* line 483: thread t is given an iteration i of the outer loop
OmpTakeIteration(t) ==
  /\ tpc[t] = "idle"
  /\ \E i \in (0 .. options.num_lists - 1) \ claimed :
       /\ claimed' = claimed \cup {i}
       /\ ti' = [ti EXCEPT ![t] = i]
       /\ tj' = [tj EXCEPT ![t] = i + 1]
  /\ tpc' = [tpc EXCEPT ![t] = "inner"]
  /\ UNCHANGED <<exceptOMP, cout, trvalue, tpart>>

\* lines 485-501: the two lists of the pair are read and scored
OmpScorePair(t) ==
  /\ tpc[t] = "inner"
  /\ tj[t] < options.num_lists
  /\ LET l0 == ti[t] + 1
         l1 == tj[t] + 1
         g0 == readLineIndex(file, l0, options.num_genes)
         g1 == readLineIndex(file, l1, options.num_genes)
     IN trvalue' = [trvalue EXCEPT ![t] = LoopScore(options, g0, g1)]
  /\ tpart' = [tpart EXCEPT ![t] = 1]
  /\ tpc' = [tpc EXCEPT ![t] = "write"]
  /\ UNCHANGED <<exceptOMP, cout, claimed, ti, tj>>

\* line 503: one operator << of the statement; the tokens are
\* 1: l0, 2: "_", 3: l1, 4: " ", 5: rvalue, 6: endl
OmpWrite(t) ==
  /\ tpc[t] = "write"
  /\ cout' = Append(cout, [l0 |-> ti[t] + 1, l1 |-> tj[t] + 1, rvalue |-> trvalue[t],
                           part |-> tpart[t]])
  /\ IF tpart[t] < 6
     THEN tpart' = [tpart EXCEPT ![t] = @ + 1] /\ UNCHANGED <<tpc, tj>>
     ELSE /\ tpart' = [tpart EXCEPT ![t] = 1]
          /\ tj' = [tj EXCEPT ![t] = @ + 1]
          /\ tpc' = [tpc EXCEPT ![t] = "inner"]
  /\ UNCHANGED <<exceptOMP, claimed, ti, trvalue>>

\* line 485 false: the iteration i of thread t is over
OmpEndIteration(t) ==
  /\ tpc[t] = "inner"
  /\ tj[t] >= options.num_lists
  /\ tpc' = [tpc EXCEPT ![t] = "idle"]
  /\ UNCHANGED <<exceptOMP, cout, claimed, ti, tj, trvalue, tpart>>

\* line 506: no iteration is left, thread t reaches the end of the loop
OmpJoin(t) ==
  /\ tpc[t] = "idle"
  /\ claimed = 0 .. options.num_lists - 1
  /\ tpc' = [tpc EXCEPT ![t] = "done"]
  /\ UNCHANGED <<exceptOMP, cout, claimed, ti, tj, trvalue, tpart>>

NextOMP ==
  \/ \E t \in Threads : OmpTakeIteration(t)
  \/ \E t \in Threads : OmpScorePair(t)
  \/ \E t \in Threads : OmpWrite(t)
  \/ \E t \in Threads : OmpEndIteration(t)
  \/ \E t \in Threads : OmpJoin(t)

SpecOMP == InitOMP /\ [][NextOMP]_vars

OMPDone == \A t \in Threads : tpc[t] = "done"

\* ------------------------------------------- the two builds on one input
\* the MPI build is run on an input, then the OpenMP build, as a single process
\* with a team of one thread (OMP_NUM_THREADS=1), on the same input
InitModes ==
  /\ InitInput(2 .. MaxProcs) /\ InitMaster /\ InitTeam(1)
  /\ WeightIdle /\ ScoreIdle /\ BodyIdle /\ PairIdle

NextModes ==
  \/ NextMPI
  \/ AllDone /\ NextOMP

SpecModes == InitModes /\ [][NextModes]_vars

\* --------------------------------------------- the loop bodies on their own
\* the scoring of one pair, as clientProcess and as the OpenMP loop do it, on
\* every two lists of up to MaxPairGenes genes
InitBody ==
  /\ \E n \in 1 .. MaxPairGenes, p \in 0 .. MaxPivot, t \in BOOLEAN :
       /\ options = Options(n, 2, p, t, 2)
       /\ gene_list0 \in Perms(n)
       /\ gene_list1 \in Perms(n)
  /\ total_weight = 0 /\ buff = <<>> /\ history = <<>> /\ rvalue = 0 /\ si = 0
  /\ spc = "idle"
  /\ file = <<>>
  /\ BodyIdle /\ WeightIdle /\ MPIIdle /\ OMPIdle /\ PairIdle

\* lines 373-385
ClientBody ==
  /\ body = "none"
  /\ body' = "client"
  /\ reported' = ClientScore(options, gene_list0, gene_list1)
  /\ UNCHANGED exceptBody

\* lines 495-503
LoopBody ==
  /\ body = "none"
  /\ body' = "loop"
  /\ reported' = LoopScore(options, gene_list0, gene_list1)
  /\ UNCHANGED exceptBody

NextBody == ClientBody \/ LoopBody

SpecBody == InitBody /\ [][NextBody]_vars

\* ------------------------------------ one pass of a loop body on any file
\* lines 367-387 of clientProcess and 489-503 of main, on a file whose list
\* lines may be missing, short, or hold identifiers >= num_genes, and with any
\* num_genes the header gives, 0 included: neither readHeaderBlock nor
\* readLineIndex nor scoreLists tests any of it.  An access outside a vector is
\* undefined behaviour: the process is killed (SIGSEGV), or it goes on, the
\* write having landed outside the vector and the read having given any value.

\* the list lines a file of num_genes n may hold
Lines(n) == UNION {[0 .. len - 1 -> 0 .. n] : len \in 0 .. n}

\* the files of at most two list lines
Files(n) == UNION {[1 .. c -> Lines(n)] : c \in 0 .. 2}

InitPair ==
  /\ \E n \in 0 .. MaxReadGenes, p \in 0 .. MaxPivot :
       /\ options = Options(n, 2, p, FALSE, 2)
       /\ file \in Files(n)
  /\ body \in {"client", "loop"}
  /\ pair \in IF body = "client" THEN {<<1, 1>>, <<1, 2>>, <<2, 2>>} ELSE {<<1, 2>>}
  /\ ppc = "read0"
  /\ oob = {}
  /\ reported = -1
  /\ ScoreIdle /\ WeightIdle /\ MPIIdle /\ OMPIdle

\* lines 367, 370 (489, 492): gene_list0(num_genes), readLineIndex(options, l0, gene_list0)
PairReadList0 ==
  /\ ppc = "read0"
  /\ LET out == OutOfBounds(file, pair[1], options.num_genes)
     IN /\ oob' = oob \cup {[vec |-> "gene_list0", index |-> x, kind |-> "write"] : x \in out}
        /\ \/ /\ out # {}
              /\ ppc' = "killed"
              /\ UNCHANGED gene_list0
           \/ /\ gene_list0' = readLineIndex(file, pair[1], options.num_genes)
              /\ ppc' = "read1"
  /\ UNCHANGED <<options, file, weightVars, mpiVars, ompVars, body, reported, pair,
                 gene_list1, total_weight, buff, history, rvalue, si, spc>>

\* lines 368, 371 (490, 493): gene_list1(num_genes), readLineIndex(options, l1, gene_list1)
PairReadList1 ==
  /\ ppc = "read1"
  /\ LET out == OutOfBounds(file, pair[2], options.num_genes)
     IN /\ oob' = oob \cup {[vec |-> "gene_list1", index |-> x, kind |-> "write"] : x \in out}
        /\ \/ /\ out # {}
              /\ ppc' = "killed"
              /\ UNCHANGED gene_list1
           \/ /\ gene_list1' = readLineIndex(file, pair[2], options.num_genes)
              /\ ppc' = "score"
  /\ UNCHANGED <<options, file, weightVars, mpiVars, ompVars, body, reported, pair,
                 gene_list0, total_weight, buff, history, rvalue, si, spc>>

\* line 373 (495), num_genes > 0: scoreLists on the two vectors as they are
PairScoreLists ==
  /\ ppc = "score"
  /\ options.num_genes > 0
  /\ rvalue' = IF body = "client" THEN ClientScore(options, gene_list0, gene_list1)
               ELSE LoopScore(options, gene_list0, gene_list1)
  /\ ppc' = "emit"
  /\ UNCHANGED <<options, file, weightVars, mpiVars, ompVars, body, reported, pair, oob,
                 gene_list0, gene_list1, total_weight, buff, history, si, spc>>

\* line 373 (495), num_genes = 0: both loops of lines 83-92 run no iteration,
\* one_over is 1.0 / 0, line 116 reads gene_list0[0] and line 117 buff[ivalue] of
\* empty vectors, the main loop runs no iteration, the value returned is 0.0 * sqrt(0)
PairScoreEmpty ==
  /\ ppc = "score"
  /\ options.num_genes = 0
  /\ \/ /\ oob' = oob \cup {[vec |-> "gene_list0", index |-> 0, kind |-> "read"]}
        /\ ppc' = "killed"
        /\ UNCHANGED rvalue
     \/ /\ \E ivalue \in 0 .. 1 :
             oob' = oob \cup {[vec |-> "gene_list0", index |-> 0, kind |-> "read"],
                              [vec |-> "buff", index |-> ivalue, kind |-> "read"]}
        /\ rvalue' = 0
        /\ ppc' = "emit"
  /\ UNCHANGED <<options, file, weightVars, mpiVars, ompVars, body, reported, pair,
                 gene_list0, gene_list1, total_weight, buff, history, si, spc>>

\* lines 382-387 (503): the result of the pair is sent (written)
PairEmit ==
  /\ ppc = "emit"
  /\ reported' = rvalue
  /\ ppc' = "done"
  /\ UNCHANGED <<options, file, weightVars, mpiVars, ompVars, body, pair, oob, scoreVars>>

NextPair == PairReadList0 \/ PairReadList1 \/ PairScoreLists \/ PairScoreEmpty \/ PairEmit

SpecPair == InitPair /\ [][NextPair]_vars

\* C1: once the distributed run is over, the chunks the workers were sent, and
\* the pairs whose results rank 0 wrote, are together the full enumeration of
\* the pairs (i, j), 1 <= i <= j <= num_lists.
ChunksCoverEnumeration ==
  AllDone =>
    /\ UNION {PairsOf(buffer[k]) : k \in Workers} = AllPairs(options.num_lists)
    /\ {<<mcout[m].i, mcout[m].j>> : m \in 1 .. Len(mcout)} = AllPairs(options.num_lists)

\* C3: the coordinator waits for exactly as many results as it has distributed
\* pairs, and under weak fairness of every rank it leaves the collection loop
\* and every rank returns, whatever the arrival order and whichever sends block.
CoordinatorTerminates ==
  /\ [](mpc = "collect" => total_tests = SentPairCount(options.num_procs - 1))
  /\ <>AllDone

CoordinatorTerminatesWitness ==
  /\ AllDone
  /\ options.num_procs >= 3
  /\ results = total_tests
  /\ total_tests >= 3
  /\ Len(mcout) = total_tests

\* C4: the chunks are pairwise disjoint and hold no pair twice, and no pair is
\* scored twice: the results produced carry pairwise different (i, j).
ChunksDisjoint ==
  /\ \A k1, k2 \in Workers :
       k1 # k2 => PairsOf(SentChunk(k1)) \cap PairsOf(SentChunk(k2)) = {}
  /\ \A k \in Workers : Cardinality(PairsOf(SentChunk(k))) = Len(SentChunk(k)) \div 2
  /\ LET r == AllResults(options.num_procs - 1)
     IN \A m1, m2 \in 1 .. Len(r) :
          (r[m1].i = r[m2].i /\ r[m1].j = r[m2].j) => m1 = m2

ChunksDisjointWitness ==
  /\ AllDone
  /\ options.num_procs >= 3
  /\ \A k \in Workers : Len(buffer[k]) >= 2
  /\ Len(mcout) >= 3

\* ---------------------------------------------- properties of the two modes
\* the pairs of the lines the OpenMP build has written to the end
LinesWritten == {<<cout[m].l0, cout[m].l1>> : m \in {q \in 1 .. Len(cout) : cout[q].part = 6}}

\* C5: on the same input the two builds score and emit the same set of pairs.
SameEnumeration ==
  (AllDone /\ OMPDone) =>
    {<<mcout[m].i, mcout[m].j>> : m \in 1 .. Len(mcout)} = LinesWritten

\* C8: the tokens of one line are written without a token of another line in
\* between: a token that is not an endl is followed by the next token of its line.
LinesNotInterleaved ==
  \A m \in 1 .. Len(cout) - 1 :
    cout[m].part < 6 =>
      /\ cout[m + 1].l0 = cout[m].l0
      /\ cout[m + 1].l1 = cout[m].l1
      /\ cout[m + 1].part = cout[m].part + 1

\* C9: with two-tailed scoring the reported score is the larger of the forward
\* score and the score against the reversed second list, and in both loop
\* bodies it is never below the score reported without two-tailed scoring.
TwoTailedIsMax ==
  body # "none" =>
    LET off == [options EXCEPT !.two_tailed = FALSE]
        plain == IF body = "client" THEN ClientScore(off, gene_list0, gene_list1)
                 ELSE LoopScore(off, gene_list0, gene_list1)
        fwd == scoreLists(options, gene_list0, gene_list1)
        rev == scoreLists(options, gene_list0, Reverse(gene_list1))
    IN /\ reported >= plain
       /\ plain = fwd
       /\ options.two_tailed => reported = Max(fwd, rev)

TwoTailedIsMaxWitness ==
  /\ body = "client"
  /\ options.two_tailed
  /\ options.num_genes = 3
  /\ options.pivot > 0
  /\ reported = scoreLists(options, gene_list0, Reverse(gene_list1))
  /\ reported > scoreLists(options, gene_list0, gene_list1)

\* ------------------------------------------------ properties of the scorer
\* the position of gene g in list l
RankIn(l, g) == CHOOSE i \in DOMAIN l : l[i] = g

\* count(i, j): the genes at rank <= i in list a and at rank <= j in list b
Count(a, b, i, j) == Cardinality({g \in DOMAIN a : RankIn(a, g) <= i /\ RankIn(b, g) <= j})

\* the maximum over the whole matrix of count(i,j)/n - (i+1)*(j+1)/n^2, as its
\* numerator over n^3 (total_weight = n at pivot 0)
MatrixMax(a, b) ==
  LET n == Cardinality(DOMAIN a)
  IN SetMax({Count(a, b, i, j) * n * n - (i + 1) * (j + 1) * n : i \in DOMAIN a, j \in DOMAIN a})

\* C2: at pivot 0 the running maximum scoreLists reaches through its History
\* is the maximum over the full matrix of positions.
HistoryIsMatrixMax ==
  (spc = "done" /\ options.pivot = 0) => rvalue = MatrixMax(gene_list0, gene_list1)

\* C6: for num_genes = 4 and pivot 0 the score of [0,1,2,3] against its
\* reversal is strictly lower than its score against itself.
ReversalScoresLower ==
  (/\ spc = "done" /\ options.num_genes = 4 /\ options.pivot = 0
   /\ gene_list0 = [i \in 0 .. 3 |-> i]
   /\ gene_list1 = [i \in 0 .. 3 |-> 3 - i])
    => rvalue < scoreLists(options, gene_list0, gene_list0)

\* C7: the score of a list against itself is at least its score against any
\* other list.
SelfComparisonIsMax ==
  spc = "done" => scoreLists(options, gene_list0, gene_list0) >= rvalue

\* C10: for pivot p > 0 the weight does not increase from i to i+1 when i < p,
\* and is 1 for every i >= p.
WeightMonotone ==
  (weight # -1 /\ options.pivot > 0) =>
    /\ idx < options.pivot => weight >= calculateWeight(idx + 1, options.pivot)
    /\ idx >= options.pivot => weight = 1

\* ------------------------------------------ properties of the input checks
\* list line l of the file holds a gene identifier outside [0, num_genes)
OutOfRange(l) ==
  /\ l \in 1 .. Len(file)
  /\ \E t \in DOMAIN file[l] : file[l][t] >= options.num_genes

\* C11: when a list of the pair holds a gene identifier outside [0, num_genes)
\* the pass ends in an error, without a score, and no write is ever made
\* outside the bounds of the rank vector or of buff.
OutOfRangeFails ==
  /\ \A a \in oob : a.kind # "write"
  /\ (OutOfRange(pair[1]) \/ OutOfRange(pair[2])) =>
       (ppc \notin {"emit", "done"} /\ reported = -1)

\* list line l is missing from the file or has fewer than num_genes tokens
ShortLine(l) ==
  IF l \in 1 .. Len(file) THEN Cardinality(DOMAIN file[l]) < options.num_genes
  ELSE 0 < options.num_genes

\* C12: when the line of a list of the pair is missing or has fewer than
\* num_genes tokens, scoreLists is never run and no score is emitted.
ShortReadIsFatal ==
  (ShortLine(pair[1]) \/ ShortLine(pair[2])) =>
    (ppc \notin {"emit", "done"} /\ reported = -1)

\* C13: with num_genes = 0 no list is loaded, scoreLists is never called and
\* no result is emitted.
ZeroGenesRejected ==
  options.num_genes = 0 => (ppc = "read0" /\ oob = {} /\ reported = -1)


\* ------------------------------------------- properties of the message flow
\* the messages of rank 0 that worker k has received
Received(k) ==
  IF wpc[k] = "recv_count" THEN 0 ELSE IF wpc[k] = "recv_pairs" THEN 1 ELSE 2

\* the messages rank 0 has sent to worker k
SentTo(k) == Received(k) + Len(mchan[k])

\* C14: each worker is sent one count message and one pair-list message and
\* no more, all of them within the distribution loop; it sends no result before
\* it has received both, and what it has received is never replaced.
ChunkOnceUpFront ==
  /\ [](\A k \in Workers :
          /\ SentTo(k) <= 2
          /\ mpc \in {"collect", "done"} => SentTo(k) = 2
          /\ Received(k) < 2 => (rchan[k] = <<>> /\ wi[k] = 0)
          /\ Received(k) = 2 => bsize[k] = Len(buffer[k])
          /\ \A m \in 1 .. Len(mcout) :
               <<mcout[m].i, mcout[m].j>> \in PairsOf(buffer[k]) => Received(k) = 2)
  /\ [][/\ mpc \in {"collect", "done"} =>
             \A k \in Workers : Len(mchan'[k]) <= Len(mchan[k])
        /\ \A k \in Workers :
             Received(k) = 2 =>
               (Received(k)' = 2 /\ buffer'[k] = buffer[k] /\ bsize'[k] = bsize[k])]_vars

ChunkOnceUpFrontWitness ==
  /\ mpc = "collect"
  /\ options.num_procs = 3
  /\ wpc[1] = "recv_pairs"
  /\ wpc[2] = "done"
  /\ Len(buffer[2]) = 4
  /\ results = 1

\* the chunk of worker k has been sent
ChunkSent(k) == k < mi \/ (k = mi /\ mpc = "wait_pairs")

\* C19: with T = total_tests and W = num_procs - 1, worker k is sent the
\* floor(T/W) pairs of the enumeration from pair position (k-1)*floor(T/W) on,
\* the last worker T mod W pairs more, and the sizes sum to T.
ChunkSizing ==
  LET T == total_tests
      W == options.num_procs - 1
      q == T \div W
      size(x) == q + (IF x = W THEN T % W ELSE 0)
  IN /\ \A k \in Workers :
          /\ ChunkSent(k) =>
               SentChunk(k) = SubSeq(test_numbers, 2 * (k - 1) * q + 1,
                                     2 * (k - 1) * q + 2 * size(k))
          /\ Received(k) >= 1 => bsize[k] = 2 * size(k)
     /\ mpc \in {"collect", "done"} => SentPairCount(W) = T

ChunkSizingWitness ==
  /\ mpc = "done"
  /\ options.num_procs = 3
  /\ total_tests = 1
  /\ buffer[1] = <<>>
  /\ buffer[2] = <<1, 1>>
  /\ wpc[1] = "done"

\* the results worker k has produced
Produced(k) == wi[k] \div 2 + (IF wpc[k] = "wait_result" THEN 1 ELSE 0)

\* the results of worker k in arrival order: those rank 0 has written, then
\* those still in flight
ResultsOf(k) ==
  SelectSeq(mcout, LAMBDA r : <<r.i, r.j>> \in PairsOf(buffer[k])) \o rchan[k]

\* C20: the results of each worker, written or in flight, are those of the
\* pairs of its chunk it has scored, each once and in order; rank 0 writes a
\* result only by receiving it, as it arrives; and once rank 0 has left the
\* collection loop nothing is in flight and the written pairs are the
\* distributed pairs, each once.
ResultsOnce ==
  /\ [](/\ \A k \in Workers :
           /\ Len(ResultsOf(k)) = Produced(k)
           /\ \A m \in 1 .. Len(ResultsOf(k)) :
                /\ ResultsOf(k)[m].i = buffer[k][2 * m - 1]
                /\ ResultsOf(k)[m].j = buffer[k][2 * m]
        /\ Len(mcout) = results
        /\ \A m \in 1 .. Len(mcout) :
             \E k \in Workers : <<mcout[m].i, mcout[m].j>> \in PairsOf(buffer[k])
        /\ mpc = "done" =>
             /\ \A k \in Workers :
                  rchan[k] = <<>> /\ Produced(k) = Len(buffer[k]) \div 2
             /\ Len(mcout) = SentPairCount(options.num_procs - 1))
  /\ [][mcout' # mcout =>
          \E k \in Workers :
            /\ rchan[k] # <<>>
            /\ mcout' = Append(mcout, Head(rchan[k]))
            /\ rchan' = [rchan EXCEPT ![k] = Tail(@)]]_vars

ResultsOnceWitness ==
  /\ mpc = "done"
  /\ options.num_procs = 3
  /\ Len(mcout) = 3
  /\ <<mcout[1].i, mcout[1].j>> = <<1, 2>>
  /\ <<mcout[2].i, mcout[2].j>> = <<1, 1>>
  /\ <<mcout[3].i, mcout[3].j>> = <<1, 3>>

\* --------------------------------------------- properties of the History
\* C15: with num_genes = 1 and any pivot, total_weight and
\* num_genes * num_genes are positive, so nothing is divided by zero, and the
\* value returned is 0.
OneGeneDefined ==
  (options.num_genes = 1 /\ spc \in {"loop", "done"}) =>
    /\ total_weight > 0
    /\ options.num_genes * options.num_genes > 0
    /\ rvalue = 0

OneGeneDefinedWitness ==
  /\ spc = "done"
  /\ options.num_genes = 1
  /\ options.pivot = 2
  /\ total_weight = 3
  /\ rvalue = 0

\* C16: after every step the History is strictly increasing in pos_y.
HistoryIncreasing ==
  spc \in {"loop", "done"} =>
    \A k \in 1 .. Len(history) - 1 : history[k].pos_y < history[k + 1].pos_y

\* C17: in a Case B step every entry with pos_y > pivot_pos, the first
\* included, has w added to its value, every entry with pos_y < pivot_pos keeps
\* its value, and the new entry (pivot_pos, v + w) stands immediately after the
\* last entry with pos_y <= pivot_pos, v being that entry's value.
CaseBUpdates ==
  [][(/\ spc = "loop"
      /\ si < options.num_genes
      /\ ~(buff[gene_list0[si]] > history[Len(history)].pos_y)) =>
       LET pos == buff[gene_list0[si]]
           w == StepWeight(si, pos, options.pivot)
           below == {k \in 1 .. Len(history) : history[k].pos_y <= pos}
       IN /\ Len(history') = Len(history) + 1
          /\ \A k \in 1 .. Len(history) :
               \E m \in 1 .. Len(history') :
                 /\ history'[m].pos_y = history[k].pos_y
                 /\ history[k].pos_y > pos => history'[m].value = history[k].value + w
                 /\ history[k].pos_y < pos => history'[m].value = history[k].value
          /\ below # {} =>
               LET s == SetMax(below)
               IN /\ history'[s] = history[s]
                  /\ history'[s + 1] = [pos_y |-> pos, value |-> history[s].value + w]]_vars

\* the candidate of the entry pushed by the first line, step i = 0
FirstCandidate ==
  Candidate(FirstHistory(gene_list0, buff, options.pivot)[1], 0, options.num_genes,
            total_weight)

\* C18: rvalue is the running maximum of the candidates of all the entries
\* touched at all the steps, step 0 included.
RunningMaxAllSteps ==
  /\ spc \in {"loop", "done"} => rvalue >= FirstCandidate
  /\ spc = "done" =>
       rvalue = ScoreLoop([history |-> FirstHistory(gene_list0, buff, options.pivot),
                           rvalue |-> Max(0, FirstCandidate)],
                          1, gene_list0, buff, options.num_genes, options.pivot,
                          total_weight).rvalue


=============================================================================
